---- MODULE Spec2Model ----
(***************************************************************************)
(* Model of src/src/main.rs: the syslog flow aggregator.                   *)
(*                                                                         *)
(* process_syslog_files walks a directory, reads every file line by line,  *)
(* validates each comma-separated line, merges it into master_record under *)
(* the key "fw_src_dst_port_proto", and finally writes one JSON document.  *)
(*                                                                         *)
(* Text is modelled as sequences of one-character strings, so that         *)
(* trim, split(','), parse::<u64> and format!("{}_{}...") are computed as  *)
(* the code computes them.  u64 is scaled down to CounterBits bits; its    *)
(* wrap-around / overflow panic and the parse overflow are kept.           *)
(***************************************************************************)
EXTENDS Integers, Sequences, FiniteSets, TLC

\* ------------------------------------------------------------------ bounds
MaxEntries == 2          \* directory entries yielded by read_dir
MaxItems == 2            \* items (lines or failed reads) yielded over a run
MaxClock == 2            \* wall-clock readings are 0..MaxClock (milliseconds)
CounterBits == 3         \* width of the scaled-down u64

U64_MAX == 2^CounterBits - 1
U128_MAX == (U64_MAX + 1) * (U64_MAX + 1) - 1
MIN_FIELDS == 13

\* -------------------------------------------------------------------- text
DigitChars == <<"0", "1", "2", "3", "4", "5", "6", "7", "8", "9">>

IsDigit(c) == \E i \in 1..10 : DigitChars[i] = c

DigitVal(c) == (CHOOSE i \in 1..10 : DigitChars[i] = c) - 1

IsSpace(c) == c = " "

RECURSIVE TrimStart(_)
TrimStart(s) ==
  IF s # <<>> /\ IsSpace(Head(s)) THEN TrimStart(Tail(s)) ELSE s

RECURSIVE TrimEnd(_)
TrimEnd(s) ==
  IF s # <<>> /\ IsSpace(s[Len(s)]) THEN TrimEnd(SubSeq(s, 1, Len(s) - 1)) ELSE s

\* str::trim
Trim(s) == TrimEnd(TrimStart(s))

\* str::split(','): the fields between the commas; "" gives one empty field.
RECURSIVE SplitFrom(_, _, _)
SplitFrom(s, cur, acc) ==
  IF s = <<>> THEN Append(acc, cur)
  ELSE IF Head(s) = "," THEN SplitFrom(Tail(s), <<>>, Append(acc, cur))
  ELSE SplitFrom(Tail(s), Append(cur, Head(s)), acc)

Split(s) == SplitFrom(s, <<>>, <<>>)

\* u64::from_str: an optional '+', then decimal digits, checked for overflow.
RECURSIVE ParseDigits(_, _)
ParseDigits(s, acc) ==
  IF s = <<>> THEN [ok |-> TRUE, val |-> acc]
  ELSE IF ~IsDigit(Head(s)) THEN [ok |-> FALSE, val |-> 0]
  ELSE IF acc * 10 + DigitVal(Head(s)) > U64_MAX THEN [ok |-> FALSE, val |-> 0]
  ELSE ParseDigits(Tail(s), acc * 10 + DigitVal(Head(s)))

ParseU64(s) ==
  IF s = <<>> THEN [ok |-> FALSE, val |-> 0]
  ELSE IF Head(s) \in {"+", "-"} /\ Len(s) = 1 THEN [ok |-> FALSE, val |-> 0]
  ELSE IF Head(s) = "+" THEN ParseDigits(Tail(s), 0)
  ELSE ParseDigits(s, 0)

\* format!("{}_{}_{}_{}_{}", ...)
FormatKey(firewall_ip, source_ip, destination_ip, destination_port, protocol_id) ==
  firewall_ip \o <<"_">> \o source_ip \o <<"_">> \o destination_ip \o <<"_">>
    \o destination_port \o <<"_">> \o protocol_id

\* ------------------------------------------------------------- arithmetic
\* a + b on u64: with overflow checks the addition panics, without it wraps.
AddU64(a, b, checked) ==
  IF a + b <= U64_MAX THEN [ok |-> TRUE, val |-> a + b]
  ELSE IF checked THEN [ok |-> FALSE, val |-> a]
  ELSE [ok |-> TRUE, val |-> (a + b) % (U64_MAX + 1)]

\* a - b on u128
SubU128(a, b, checked) ==
  IF a >= b THEN [ok |-> TRUE, val |-> a - b]
  ELSE IF checked THEN [ok |-> FALSE, val |-> 0]
  ELSE [ok |-> TRUE, val |-> (a - b) % (U128_MAX + 1)]

\* f64 values: NaN, +infinity, or a non-negative rational num/den.
NaN == [kind |-> "nan", num |-> 0, den |-> 1]
Inf == [kind |-> "inf", num |-> 0, den |-> 1]
F64(n) == [kind |-> "fin", num |-> n, den |-> 1]

FDiv(x, y) ==
  IF x.kind = "nan" \/ y.kind = "nan" THEN NaN
  ELSE IF x.kind = "inf" THEN (IF y.kind = "inf" THEN NaN ELSE Inf)
  ELSE IF y.kind = "inf" THEN F64(0)
  ELSE IF y.num = 0 THEN (IF x.num = 0 THEN NaN ELSE Inf)
  ELSE [kind |-> "fin", num |-> x.num * y.den, den |-> x.den * y.num]

FMul(x, y) ==
  IF x.kind = "nan" \/ y.kind = "nan" THEN NaN
  ELSE IF x.kind = "inf" \/ y.kind = "inf"
    THEN (IF (x.kind = "fin" /\ x.num = 0) \/ (y.kind = "fin" /\ y.num = 0)
          THEN NaN ELSE Inf)
  ELSE [kind |-> "fin", num |-> x.num * y.num, den |-> x.den * y.den]

\* format!("{:.2}", x): "NaN", "inf", or the value in hundredths.
Format2(x) ==
  IF x.kind = "nan" THEN <<"NaN">>
  ELSE IF x.kind = "inf" THEN <<"inf">>
  ELSE <<"fin", (2 * 100 * x.num + x.den) \div (2 * x.den)>>

\* ------------------------------------------------------------ input lines
\* The decimal text of n (used to write the lines a file may hold).
RECURSIVE ToDigits(_)
ToDigits(n) ==
  IF n < 10 THEN <<DigitChars[n + 1]>>
  ELSE Append(ToDigits(n \div 10), DigitChars[(n % 10) + 1])

RECURSIVE JoinFields(_)
JoinFields(fields) ==
  IF Len(fields) = 1 THEN fields[1]
  ELSE fields[1] \o <<",">> \o JoinFields(Tail(fields))

\* A 13-column line: columns 1, 3, 4, 5, 6 are the key fields and columns
\* 9..12 the counters (0-indexed, as in the source).
MkLine(fw, src, dst, port, proto, pin, bin, pout, bout) ==
  JoinFields(<< <<"x">>, fw, <<"x">>, src, dst, port, proto, <<"x">>, <<"x">>,
               pin, bin, pout, bout >>)

LineA == MkLine(<<"a">>, <<"b", "_", "c">>, <<"d">>, <<"8">>, <<"t">>,
                <<"1">>, <<"2">>, <<"3">>, <<"1">>)
\* another five-tuple whose joined key is the same text as LineA's
LineB == MkLine(<<"a", "_", "b">>, <<"c">>, <<"d">>, <<"8">>, <<"t">>,
                <<"1">>, <<"1">>, <<"1">>, <<"1">>)
\* LineA's five-tuple, the largest counter, a '+' sign, a 14th column and
\* trailing white space
LineC == MkLine(<<"a">>, <<"b", "_", "c">>, <<"d">>, <<"8">>, <<"t">>,
                ToDigits(U64_MAX), <<"0">>, <<"+", "1">>, <<"2">>)
           \o <<",", "z", " ">>
LineD == MkLine(<<"e">>, <<"c">>, <<"d">>, <<"8">>, <<"t">>,
                <<"2">>, <<"2">>, <<"2">>, <<"2">>)
\* 12 columns only
LineShort == JoinFields(<< <<"x">>, <<"a">>, <<"x">>, <<"b", "_", "c">>, <<"d">>,
                           <<"8">>, <<"t">>, <<"x">>, <<"x">>,
                           <<"1">>, <<"2">>, <<"3">> >>)
\* an empty counter column
LineEmpty == MkLine(<<"a">>, <<"b", "_", "c">>, <<"d">>, <<"8">>, <<"t">>,
                    <<"1">>, <<>>, <<"3">>, <<"1">>)
\* the first counter parses, the second does not
LineNeg == MkLine(<<"a">>, <<"b", "_", "c">>, <<"d">>, <<"8">>, <<"t">>,
                  <<"5">>, <<"-", "1">>, <<"1">>, <<"1">>)
\* the last counter is too large for a u64
LineBig == MkLine(<<"a">>, <<"b", "_", "c">>, <<"d">>, <<"8">>, <<"t">>,
                  <<"1">>, <<"1">>, <<"1">>, Append(ToDigits(U64_MAX), "0"))

LineSet == {LineA, LineB, LineC, LineD, LineShort, LineEmpty, LineNeg, LineBig}

\* --------------------------------------------------------- the loop body
EmptyTable == [k \in {} |-> 0]

\* Record { key, source_ip, destination_ip, packets_in, ..., count: 1 }
NewRecord(key, source_ip, destination_ip, packets_in, bytes_in, packets_out, bytes_out) ==
  [key |-> key, source_ip |-> source_ip, destination_ip |-> destination_ip,
   packets_in |-> packets_in, bytes_in |-> bytes_in,
   packets_out |-> packets_out, bytes_out |-> bytes_out, count |-> 1]

\* and_modify with `=` written for `+=`
AndModifyOverwrite(rec, new, checked) ==
  [ok |-> TRUE,
   rec |-> [rec EXCEPT !.packets_in = new.packets_in, !.bytes_in = new.bytes_in,
                       !.packets_out = new.packets_out, !.bytes_out = new.bytes_out,
                       !.count = AddU64(rec.count, 1, FALSE).val]]

\* and_modify that also takes the later line's addresses
AndModifyLastWriter(rec, new, checked) ==
  [ok |-> TRUE,
   rec |-> [rec EXCEPT !.source_ip = new.source_ip,
                       !.destination_ip = new.destination_ip,
                       !.packets_in = AddU64(rec.packets_in, new.packets_in, FALSE).val,
                       !.bytes_in = AddU64(rec.bytes_in, new.bytes_in, FALSE).val,
                       !.packets_out = AddU64(rec.packets_out, new.packets_out, FALSE).val,
                       !.bytes_out = AddU64(rec.bytes_out, new.bytes_out, FALSE).val,
                       !.count = AddU64(rec.count, 1, FALSE).val]]

\* and_modify without `rec.count += 1`
AndModifyNoCount(rec, new, checked) ==
  [ok |-> TRUE,
   rec |-> [rec EXCEPT !.packets_in = AddU64(rec.packets_in, new.packets_in, FALSE).val,
                       !.bytes_in = AddU64(rec.bytes_in, new.bytes_in, FALSE).val,
                       !.packets_out = AddU64(rec.packets_out, new.packets_out, FALSE).val,
                       !.bytes_out = AddU64(rec.bytes_out, new.bytes_out, FALSE).val]]

\* The and_modify closure: the four additions and count += 1, in order; an
\* addition that panics leaves the earlier ones applied.
AndModify(rec, new, checked) ==
  LET a1 == AddU64(rec.packets_in, new.packets_in, checked)
      a2 == AddU64(rec.bytes_in, new.bytes_in, checked)
      a3 == AddU64(rec.packets_out, new.packets_out, checked)
      a4 == AddU64(rec.bytes_out, new.bytes_out, checked)
      a5 == AddU64(rec.count, 1, checked)
      r1 == [rec EXCEPT !.packets_in = a1.val]
      r2 == [r1 EXCEPT !.bytes_in = a2.val]
      r3 == [r2 EXCEPT !.packets_out = a3.val]
      r4 == [r3 EXCEPT !.bytes_out = a4.val]
      r5 == [r4 EXCEPT !.count = a5.val]
  IN IF ~a1.ok THEN [ok |-> FALSE, rec |-> rec]
     ELSE IF ~a2.ok THEN [ok |-> FALSE, rec |-> r1]
     ELSE IF ~a3.ok THEN [ok |-> FALSE, rec |-> r2]
     ELSE IF ~a4.ok THEN [ok |-> FALSE, rec |-> r3]
     ELSE IF ~a5.ok THEN [ok |-> FALSE, rec |-> r4]
     ELSE [ok |-> TRUE, rec |-> r5]

\* master_record.entry(key).and_modify(..).or_insert(new)
MergeOrInsert(table, new, checked) ==
  IF new.key \in DOMAIN table
    THEN LET m == AndModify(table[new.key], new, checked)
         IN [ok |-> m.ok, table |-> [table EXCEPT ![new.key] = m.rec]]
    ELSE [ok |-> TRUE,
          table |-> [k \in DOMAIN table \cup {new.key} |->
                       IF k = new.key THEN new ELSE table[k]]]

\* The validated fields of a line: ok is FALSE when the line is skipped by one
\* of the three `continue`s.
ParseLine(line) ==
  LET parts == Split(Trim(line))
      bad == [ok |-> FALSE, rec |-> NewRecord(<<>>, <<>>, <<>>, 0, 0, 0, 0)]
  IN IF Len(parts) < MIN_FIELDS THEN bad
     ELSE LET firewall_ip == parts[2]
              source_ip == parts[4]
              destination_ip == parts[5]
              destination_port == parts[6]
              protocol_id == parts[7]
              packets_in == parts[10]
              bytes_in == parts[11]
              packets_out == parts[12]
              bytes_out == parts[13]
          IN IF packets_in = <<>> \/ bytes_in = <<>> \/ packets_out = <<>> \/ bytes_out = <<>>
               THEN bad
             ELSE LET p1 == ParseU64(packets_in)
                      p2 == ParseU64(bytes_in)
                      p3 == ParseU64(packets_out)
                      p4 == ParseU64(bytes_out)
                  IN IF ~(p1.ok /\ p2.ok /\ p3.ok /\ p4.ok) THEN bad
                     ELSE [ok |-> TRUE,
                           rec |-> NewRecord(
                             FormatKey(firewall_ip, source_ip, destination_ip,
                                       destination_port, protocol_id),
                             source_ip, destination_ip, p1.val, p2.val, p3.val, p4.val)]

\* the loop body with `session_close += 1` placed before the validation
ProcessLineCountsFirst(st, line, checked) ==
  LET p == ParseLine(line)
      st1 == [st EXCEPT !.connections = AddU64(st.connections, 1, FALSE).val,
                        !.session_close = AddU64(st.session_close, 1, FALSE).val]
      m == MergeOrInsert(st.master_record, p.rec, checked)
  IN IF ~p.ok THEN [panic |-> FALSE, st |-> st1]
     ELSE [panic |-> ~m.ok, st |-> [st1 EXCEPT !.master_record = m.table]]

\* One iteration of the line loop on st = [master_record, connections,
\* session_close]; panic is TRUE when an overflow check aborted it.
ProcessLine(st, line, checked) ==
  LET c == AddU64(st.connections, 1, checked)
      st1 == [st EXCEPT !.connections = c.val]
      p == ParseLine(line)
      s == AddU64(st.session_close, 1, checked)
      st2 == [st1 EXCEPT !.session_close = s.val]
      m == MergeOrInsert(st.master_record, p.rec, checked)
  IN IF ~c.ok THEN [panic |-> TRUE, st |-> st]
     ELSE IF ~p.ok THEN [panic |-> FALSE, st |-> st1]
     ELSE IF ~s.ok THEN [panic |-> TRUE, st |-> st1]
     ELSE [panic |-> ~m.ok, st |-> [st2 EXCEPT !.master_record = m.table]]


\* ------------------------------------------------------------- the summary
\* The Metadata struct built after the scan; elapsed_ms is end - start.
BuildMetadata(start, end, elapsed_ms, conns, closed, table, files) ==
  LET elapsed_time == FDiv(F64(elapsed_ms), F64(1000))
  IN [startTime |-> start,
      endTime |-> end,
      elapsedTime |-> elapsed_time,
      totalConnections |-> conns,
      sessionClose |-> <<closed, Format2(FMul(FDiv(F64(closed), F64(conns)), F64(100)))>>,
      flows |-> Cardinality(DOMAIN table),
      filesProcessed |-> files,
      connectionsPerSecond |-> Format2(FDiv(F64(conns), elapsed_time))]

\* ------------------------------------------------------------------- state
VARIABLES
  pc,               \* where process_syslog_files is
  overflow_checks,  \* the build: TRUE panics on integer overflow, FALSE wraps
  start_time,       \* main's clock reading
  master_record,    \* key -> Record
  connections,      \* every line read
  session_close,    \* every line accepted
  files_processed,  \* the entries opened, in order
  entries_left,     \* directory entries the iterator has yet to yield
  entry_no,         \* ordinal of the entry yielded last
  last_entry,       \* what became of it
  lines_left,       \* items the open file has yet to yield
  io_failed,        \* the open file's device fails every read from now on
  seen,             \* every item reader.lines() yielded so far, in order
  panic_at,         \* where the run panicked, "" if it did not
  metadata,         \* <<Metadata>> once built
  out_file          \* the output document: none, empty, partial or complete

vars == <<pc, overflow_checks, start_time, master_record, connections,
          session_close, files_processed, entries_left, entry_no, last_entry,
          lines_left, io_failed, seen, panic_at, metadata, out_file>>

scan == <<master_record, connections, session_close, files_processed, seen>>
dirv == <<entries_left, entry_no, last_entry>>
filev == <<lines_left, io_failed>>
outv == <<panic_at, metadata, out_file>>
build == <<overflow_checks, start_time>>

\* main reads the clock once; the end reading ranges over 0..MaxClock, so one
\* start reading in the middle gives a clock that went back, stood or advanced.
StartTimes == {1}

Init ==
  /\ pc = "read_dir"
  /\ overflow_checks \in BOOLEAN
  /\ start_time \in StartTimes
  /\ master_record = EmptyTable
  /\ connections = 0
  /\ session_close = 0
  /\ files_processed = <<>>
  /\ entries_left = 0
  /\ entry_no = 0
  /\ last_entry = "none"
  /\ lines_left = 0
  /\ io_failed = FALSE
  /\ seen = <<>>
  /\ panic_at = ""
  /\ metadata = <<>>
  /\ out_file = "none"

\* fs::read_dir(SYSLOG_DIR) is Ok: the listing holds some entries
ReadDirOk ==
  /\ pc = "read_dir"
  /\ \E n \in 0..MaxEntries : entries_left' = n
  /\ pc' = "dir"
  /\ UNCHANGED <<scan, entry_no, last_entry, filev, outv, build>>

\* fs::read_dir(..).unwrap(): an unreadable directory is fatal
ReadDirUnwrap ==
  /\ pc = "read_dir"
  /\ pc' = "panicked"
  /\ panic_at' = "read_dir"
  /\ last_entry' = "unlisted"
  /\ UNCHANGED <<scan, entries_left, entry_no, filev, metadata, out_file, build>>

\* fs::read_dir is Err: the `if let` has no else, the scan is skipped
ReadDirFails ==
  /\ pc = "read_dir"
  /\ pc' = "mkdir"
  /\ last_entry' = "unlisted"
  /\ UNCHANGED <<scan, entries_left, entry_no, filev, outv, build>>

\* an entry that consumes no file: what marks why
SkipEntry(what) ==
  /\ pc = "dir"
  /\ entries_left > 0
  /\ entries_left' = entries_left - 1
  /\ entry_no' = entry_no + 1
  /\ last_entry' = what
  /\ UNCHANGED <<pc, scan, filev, outv, build>>

\* entries.flatten() drops an Err entry
EntryErr == SkipEntry("entry_err")

\* filepath.is_file() is false
NotAFile == SkipEntry("not_file")

\* the path pushed before File::open is tried
OpenFailsAfterPush ==
  /\ pc = "dir"
  /\ entries_left > 0
  /\ entries_left' = entries_left - 1
  /\ entry_no' = entry_no + 1
  /\ last_entry' = "open_failed"
  /\ files_processed' = Append(files_processed, entry_no + 1)
  /\ UNCHANGED <<pc, master_record, connections, session_close, seen, filev, outv, build>>

\* File::open is Err: the `if let` has no else
OpenFails == SkipEntry("open_failed")

\* File::open is Ok: the path is pushed, then the line loop starts
OpenOk ==
  /\ pc = "dir"
  /\ entries_left > 0
  /\ entries_left' = entries_left - 1
  /\ entry_no' = entry_no + 1
  /\ last_entry' = "opened"
  /\ files_processed' = Append(files_processed, entry_no + 1)
  /\ \E n \in 0..(MaxItems - Len(seen)) : lines_left' = n
  /\ io_failed' = FALSE
  /\ pc' = "lines"
  /\ UNCHANGED <<master_record, connections, session_close, seen, outv, build>>

\* the directory iterator is exhausted
DirDone ==
  /\ pc = "dir"
  /\ entries_left = 0
  /\ pc' = "mkdir"
  /\ UNCHANGED <<scan, dirv, filev, outv, build>>

\* reader.lines() yields Ok(line): the loop body runs on it
LineOk ==
  /\ pc = "lines"
  /\ ~io_failed
  /\ lines_left > 0
  /\ \E line \in LineSet :
       LET r == ProcessLine([master_record |-> master_record,
                             connections |-> connections,
                             session_close |-> session_close],
                            line, overflow_checks)
       IN /\ master_record' = r.st.master_record
          /\ connections' = r.st.connections
          /\ session_close' = r.st.session_close
          /\ seen' = Append(seen, [file |-> entry_no, res |-> "ok", line |-> line])
          /\ pc' = IF r.panic THEN "panicked" ELSE "lines"
          /\ panic_at' = IF r.panic THEN "overflow" ELSE panic_at
  /\ lines_left' = lines_left - 1
  /\ UNCHANGED <<files_processed, dirv, io_failed, metadata, out_file, build>>

\* reader.lines() yields Err for a line that is not valid UTF-8: flatten()
\* drops it and the iterator goes on with the next line
BadLine ==
  /\ pc = "lines"
  /\ ~io_failed
  /\ lines_left > 0
  /\ seen' = Append(seen, [file |-> entry_no, res |-> "err", line |-> <<>>])
  /\ lines_left' = lines_left - 1
  /\ UNCHANGED <<pc, master_record, connections, session_close, files_processed,
                 dirv, io_failed, outv, build>>

\* reader.lines() yields None
Eof ==
  /\ pc = "lines"
  /\ ~io_failed
  /\ lines_left = 0
  /\ pc' = "dir"
  /\ UNCHANGED <<scan, dirv, filev, outv, build>>

\* the device under the open file starts to fail every read
DeviceFails ==
  /\ pc = "lines"
  /\ ~io_failed
  /\ io_failed' = TRUE
  /\ UNCHANGED <<pc, scan, dirv, lines_left, outv, build>>

\* reader.lines() yields Err without consuming anything
ReadFails ==
  /\ pc = "lines"
  /\ io_failed
  /\ pc' = "read_err"
  /\ UNCHANGED <<scan, dirv, filev, outv, build>>

\* flatten() drops the Err and asks the iterator again
DropErr ==
  /\ pc = "read_err"
  /\ pc' = "lines"
  /\ UNCHANGED <<scan, dirv, filev, outv, build>>

\* fs::create_dir_all(OUTPUT_DIR).unwrap()
CreateDirOk ==
  /\ pc = "mkdir"
  /\ pc' = "summarize"
  /\ UNCHANGED <<scan, dirv, filev, outv, build>>

CreateDirFails ==
  /\ pc = "mkdir"
  /\ pc' = "panicked"
  /\ panic_at' = "create_dir_all"
  /\ UNCHANGED <<scan, dirv, filev, metadata, out_file, build>>

\* end_time, elapsed_time, perf and the Metadata struct
Summarize ==
  /\ pc = "summarize"
  /\ \E end_time \in 0..MaxClock :
       LET d == SubU128(end_time, start_time, overflow_checks)
       IN IF d.ok
            THEN /\ metadata' = <<BuildMetadata(start_time, end_time, d.val, connections,
                                                session_close, master_record,
                                                files_processed)>>
                 /\ pc' = "create"
                 /\ panic_at' = panic_at
            ELSE /\ metadata' = metadata
                 /\ pc' = "panicked"
                 /\ panic_at' = "elapsed"
  /\ UNCHANGED <<scan, dirv, filev, out_file, build>>

\* File::create(&output_file).expect(..)
CreateFileOk ==
  /\ pc = "create"
  /\ out_file' = "empty"
  /\ pc' = "write"
  /\ UNCHANGED <<scan, dirv, filev, panic_at, metadata, build>>

CreateFileFails ==
  /\ pc = "create"
  /\ pc' = "panicked"
  /\ panic_at' = "create"
  /\ UNCHANGED <<scan, dirv, filev, metadata, out_file, build>>

\* serde_json::to_writer_pretty(out, &payload).expect(..), then println!
WriteOk ==
  /\ pc = "write"
  /\ out_file' = "complete"
  /\ pc' = "done"
  /\ UNCHANGED <<scan, dirv, filev, panic_at, metadata, build>>

\* the writer fails before or after some bytes reached the created file
WriteFails ==
  /\ pc = "write"
  /\ \E left \in {"empty", "partial"} : out_file' = left
  /\ pc' = "panicked"
  /\ panic_at' = "write"
  /\ UNCHANGED <<scan, dirv, filev, metadata, build>>

Next ==
  \/ ReadDirOk \/ ReadDirFails
  \/ EntryErr \/ NotAFile \/ OpenFails \/ OpenOk \/ DirDone
  \/ LineOk \/ BadLine \/ Eof \/ DeviceFails \/ ReadFails \/ DropErr
  \/ CreateDirOk \/ CreateDirFails \/ Summarize
  \/ CreateFileOk \/ CreateFileFails \/ WriteOk \/ WriteFails

Spec == Init /\ [][Next]_vars

\* The single thread never pauses: some step is always taken while one can be.
FairSpec == Spec /\ WF_vars(Next)

TypeOK ==
  /\ pc \in {"read_dir", "dir", "lines", "read_err", "mkdir", "summarize",
             "create", "write", "done", "panicked"}
  /\ connections \in 0..U64_MAX
  /\ session_close \in 0..U64_MAX
  /\ \A k \in DOMAIN master_record :
       /\ master_record[k].packets_in \in 0..U64_MAX
       /\ master_record[k].bytes_in \in 0..U64_MAX
       /\ master_record[k].packets_out \in 0..U64_MAX
       /\ master_record[k].bytes_out \in 0..U64_MAX
       /\ master_record[k].count \in 0..U64_MAX
  /\ out_file \in {"none", "empty", "partial", "complete"}
  /\ Len(seen) <= MaxItems

\* ------------------------------------------------- vocabulary of the claims
ScanPcs == {"read_dir", "dir", "lines", "read_err"}
OutputPanics == {"create_dir_all", "elapsed", "create", "write"}

\* the lines the loop body ran on, in order
IsOk(e) == e.res = "ok"

OkLines == LET ok == SelectSeq(seen, IsOk) IN [i \in 1..Len(ok) |-> ok[i].line]

Columns(line) == Split(Trim(line))

\* A line is rejected when it has fewer than 13 columns, or one of columns
\* 9..12 is empty or is no u64.
Rejected(line) ==
  \/ Len(Columns(line)) < 13
  \/ \E i \in 10..13 : Columns(line)[i] = <<>> \/ ~ParseU64(Columns(line)[i]).ok

\* firewall IP, source IP, destination IP, destination port, protocol id
FiveTuple(line) ==
  <<Columns(line)[2], Columns(line)[4], Columns(line)[5], Columns(line)[6],
    Columns(line)[7]>>

CounterValues(line) ==
  [packets_in |-> ParseU64(Columns(line)[10]).val,
   bytes_in |-> ParseU64(Columns(line)[11]).val,
   packets_out |-> ParseU64(Columns(line)[12]).val,
   bytes_out |-> ParseU64(Columns(line)[13]).val]

\* the record a line was merged into: the one stored under the line's key
RecordKeyOf(line) ==
  FormatKey(FiveTuple(line)[1], FiveTuple(line)[2], FiveTuple(line)[3],
            FiveTuple(line)[4], FiveTuple(line)[5])

\* the same, tabulated over the lines a file may hold
LineRejected == [l \in LineSet |-> Rejected(l)]
LineTuple == [l \in {x \in LineSet : ~Rejected(x)} |-> FiveTuple(l)]
LineKey == [l \in {x \in LineSet : ~Rejected(x)} |-> RecordKeyOf(l)]
LineCounters == [l \in {x \in LineSet : ~Rejected(x)} |-> CounterValues(l)]

\* the accepted lines, in order
Accepted == SelectSeq(OkLines, LAMBDA l : ~LineRejected[l])

\* the sum of f[x] over the x in S
RECURSIVE SumOver(_, _)
SumOver(S, f) ==
  IF S = {} THEN 0
  ELSE LET x == CHOOSE y \in S : TRUE IN f[x] + SumOver(S \ {x}, f)

\* the loop body run over a sequence of lines from the empty table
RECURSIVE FoldLines(_, _, _)
FoldLines(lines, st, checked) ==
  IF lines = <<>> THEN [panic |-> FALSE, st |-> st]
  ELSE LET r == ProcessLine(st, Head(lines), checked)
       IN IF r.panic THEN r ELSE FoldLines(Tail(lines), r.st, checked)

EmptyScan == [master_record |-> EmptyTable, connections |-> 0, session_close |-> 0]

Orders(n) == {f \in [1..n -> 1..n] : \A i, j \in 1..n : f[i] = f[j] => i = j}

\* a table without the first-writer fields
Counters(table) ==
  [k \in DOMAIN table |->
     <<table[k].packets_in, table[k].bytes_in, table[k].packets_out,
       table[k].bytes_out, table[k].count>>]

\* ------------------------------------------------------------------ claims

\* C1: two accepted lines are merged into the same record if and only if they
\* agree on all five key fields, whatever the fields contain.
KeyPartitioning ==
  LET acc == Accepted
  IN \A i, j \in 1..Len(acc) :
       /\ LineKey[acc[i]] \in DOMAIN master_record
       /\ (LineKey[acc[i]] = LineKey[acc[j]] <=> LineTuple[acc[i]] = LineTuple[acc[j]])

\* C2: once the scan is over, the record of every five-tuple holds the exact
\* sums of its lines' four counters, and count is the number of those lines.
\* (Stated for the records whose lines all carry one five-tuple.)
MergeCorrectness ==
  pc \notin ScanPcs /\ panic_at # "overflow" =>
    LET acc == Accepted
    IN \A i \in 1..Len(acc) :
         LET same == {j \in 1..Len(acc) : LineTuple[acc[j]] = LineTuple[acc[i]]}
             keyed == {j \in 1..Len(acc) : LineKey[acc[j]] = LineKey[acc[i]]}
             rec == master_record[LineKey[acc[i]]]
         IN same = keyed =>
              /\ rec.packets_in = SumOver(same, [j \in same |-> LineCounters[acc[j]].packets_in])
              /\ rec.bytes_in = SumOver(same, [j \in same |-> LineCounters[acc[j]].bytes_in])
              /\ rec.packets_out = SumOver(same, [j \in same |-> LineCounters[acc[j]].packets_out])
              /\ rec.bytes_out = SumOver(same, [j \in same |-> LineCounters[acc[j]].bytes_out])
              /\ rec.count = Cardinality(same)

\* C3: every line read adds exactly 1 to connections; a rejected line leaves
\* session_close and the table as they were; connections is always the
\* accepted plus the rejected lines.
RejectionAccounting ==
  /\ [](LET ok == OkLines
        IN connections = session_close
             + Cardinality({i \in 1..Len(ok) : LineRejected[ok[i]]}))
  /\ [][seen' # seen /\ seen'[Len(seen')].res = "ok" =>
          /\ connections' = connections + 1
          /\ (LineRejected[seen'[Len(seen')].line] =>
                session_close' = session_close /\ master_record' = master_record)
          /\ (~LineRejected[seen'[Len(seen')].line] => session_close' = session_close + 1)
       ]_vars

RejectionAccountingWitness ==
  /\ pc = "mkdir"
  /\ connections = 2
  /\ session_close = 1
  /\ LineRejected[OkLines[2]]
  /\ Cardinality(DOMAIN master_record) = 1

\* C4: the lines of a finished scan, run through the loop body in any other
\* order, give the same keys and per key the same four counters and count;
\* and a scan an overflow check aborted is aborted in every order.
OrderIndependence ==
  /\ pc = "mkdir" =>
       LET ok == OkLines
       IN \A f \in Orders(Len(ok)) :
            LET r == FoldLines([i \in 1..Len(ok) |-> ok[f[i]]], EmptyScan, overflow_checks)
            IN ~r.panic /\ Counters(r.st.master_record) = Counters(master_record)
  /\ panic_at = "overflow" =>
       LET ok == OkLines
       IN \A f \in Orders(Len(ok)) :
            FoldLines([i \in 1..Len(ok) |-> ok[f[i]]], EmptyScan, overflow_checks).panic

OrderIndependenceWitness ==
  /\ pc = "mkdir"
  /\ Len(OkLines) = 2
  /\ OkLines[1] # OkLines[2]
  /\ \E k \in DOMAIN master_record : master_record[k].count = 2

\* C5: a record's key, source_ip and destination_ip are those of the first
\* accepted line stored under its key, whatever was merged into it later.
FirstWriterWins ==
  LET acc == Accepted
  IN \A k \in DOMAIN master_record :
       /\ \E i \in 1..Len(acc) : LineKey[acc[i]] = k
       /\ LET first == CHOOSE i \in 1..Len(acc) :
                         /\ LineKey[acc[i]] = k
                         /\ \A j \in 1..(i - 1) : LineKey[acc[j]] # k
          IN /\ master_record[k].key = k
             /\ master_record[k].source_ip = LineTuple[acc[first]][2]
             /\ master_record[k].destination_ip = LineTuple[acc[first]][3]

FirstWriterWinsWitness ==
  LET acc == Accepted
  IN \E k \in DOMAIN master_record :
       /\ master_record[k].count = 2
       /\ \E i, j \in 1..Len(acc) :
            /\ i < j
            /\ LineKey[acc[i]] = k
            /\ LineKey[acc[j]] = k
            /\ LineTuple[acc[i]][2] # LineTuple[acc[j]][2]

\* C6 as first stated: a file that failed to open or failed a read part-way is
\* skipped entirely, none of its lines is counted in connections or
\* session_close.
UnreadableFileContributesNothing ==
  LET failed == {seen[i].file : i \in {j \in 1..Len(seen) : seen[j].res = "err"}}
      counted == {i \in 1..Len(seen) : seen[i].res = "ok" /\ seen[i].file \notin failed}
  IN /\ connections = Cardinality(counted)
     /\ session_close = Cardinality({i \in counted : ~LineRejected[seen[i].line]})

\* C6, amended: a file that fails to open is skipped entirely (nothing of it
\* reaches connections, session_close, the table or files_processed), what
\* earlier files contributed is kept and the scan goes on with the next entry;
\* a read that fails part-way through an opened file drops only that read: the
\* file stays in files_processed and the lines already read from it stay
\* counted.
OpenFailureSkipsFile ==
  [][ /\ (entry_no' # entry_no /\ last_entry' = "open_failed" =>
            /\ UNCHANGED <<master_record, connections, session_close, files_processed, seen>>
            /\ pc' = "dir")
      /\ ((seen' # seen /\ seen'[Len(seen')].res = "err") \/ pc' = "read_err" =>
            /\ UNCHANGED <<master_record, connections, session_close, files_processed>>
            /\ pc' \in {"lines", "read_err"})
    ]_vars

OpenFailureSkipsFileWitness ==
  /\ last_entry = "open_failed"
  /\ files_processed = <<1>>
  /\ entry_no = 2
  /\ Len(seen) = 2
  /\ seen[1].res = "ok"
  /\ seen[2].res = "err"
  /\ connections = 1
  /\ session_close = 1

\* C7: the output document exists only after the whole scan, and when the
\* output directory or the output file cannot be created or written the run
\* ends in a fatal error with no output document at all, not even an empty or
\* partial one.
OutputAllOrNothing ==
  /\ out_file # "none" => pc \in {"write", "done", "panicked"} /\ metadata # <<>>
  /\ pc = "done" => out_file = "complete"
  /\ pc = "panicked" /\ panic_at \in {"create_dir_all", "create", "write"} =>
       out_file = "none"

\* C8: with no file to read (no listing, an empty listing, or no entry that
\* opens as a file) the scan is not fatal: it reaches the output stage with an
\* empty table, zero counters and no files processed, and the percentage and
\* throughput of zero lines, or of zero elapsed time, come out as NaN or inf
\* rather than as a panic.
EmptyInputNotFatal ==
  /\ files_processed = <<>> /\ pc \notin {"read_dir", "dir"} =>
       /\ pc \notin ScanPcs
       /\ pc = "panicked" => panic_at \in OutputPanics
       /\ master_record = EmptyTable
       /\ connections = 0
       /\ session_close = 0
       /\ metadata # <<>> =>
            /\ metadata[1].flows = 0
            /\ metadata[1].totalConnections = 0
            /\ metadata[1].filesProcessed = <<>>
            /\ metadata[1].sessionClose = <<0, <<"NaN">>>>
            /\ metadata[1].connectionsPerSecond \in {<<"NaN">>, <<"fin", 0>>}
  /\ metadata # <<>> /\ metadata[1].startTime = metadata[1].endTime =>
       metadata[1].connectionsPerSecond \in {<<"NaN">>, <<"inf">>}
  /\ last_entry = "unlisted" => files_processed = <<>> /\ pc \notin ScanPcs

EmptyInputNotFatalWitness ==
  /\ pc = "done"
  /\ last_entry = "unlisted"
  /\ out_file = "complete"
  /\ metadata[1].flows = 0
  /\ metadata[1].endTime = metadata[1].startTime
  /\ metadata[1].connectionsPerSecond = <<"NaN">>

\* C9: the scan always comes to its end: the run eventually leaves the
\* directory and line loops, also when reads of an opened file fail.
ScanTerminates == <>(pc \notin ScanPcs)

\* C10: outside a panic the counts of the records add up to session_close,
\* every record has count >= 1, and records <= session_close <= connections;
\* so the reported flows <= accepted lines <= totalConnections.
CountConservation ==
  /\ pc # "panicked" =>
       SumOver(DOMAIN master_record, [k \in DOMAIN master_record |-> master_record[k].count])
         = session_close
  /\ \A k \in DOMAIN master_record : master_record[k].count >= 1
  /\ Cardinality(DOMAIN master_record) <= session_close
  /\ session_close <= connections
  /\ metadata # <<>> =>
       /\ metadata[1].flows = Cardinality(DOMAIN master_record)
       /\ metadata[1].flows <= metadata[1].sessionClose[1]
       /\ metadata[1].sessionClose[1] <= metadata[1].totalConnections

CountConservationWitness ==
  /\ pc = "done"
  /\ metadata[1].flows = 1
  /\ metadata[1].sessionClose[1] = 2
  /\ connections = 2

====
